---- MODULE Spec2Model ----
(***************************************************************************)
(* Kollny EXPRESS API (main.py): the POST /api/recipes handler get_recipes *)
(* and the rules-based matcher simple_recipe_engine over the fixed catalog.*)
(*                                                                         *)
(* Ingredient strings are sequences of one-character strings, because the  *)
(* matcher trims and lower-cases them; titles, steps and difficulty values *)
(* are only compared for equality (difficulty also for truthiness) and are *)
(* kept as TLA+ strings.                                                   *)
(***************************************************************************)
EXTENDS Integers, Sequences, FiniteSets, TLC

(* ------------------------------ bounds -------------------------------- *)

\* Number of words of AllWords a client may put in the ingredients array.
MaxWords == 12

(* ------------------------- Python str helpers -------------------------- *)

UpperCase == <<"A","B","C","D","E","F","G","H","I","J","K","L","M",
               "N","O","P","Q","R","S","T","U","V","W","X","Y","Z">>

LowerCase == <<"a","b","c","d","e","f","g","h","i","j","k","l","m",
               "n","o","p","q","r","s","t","u","v","w","x","y","z">>

\* The characters str.strip() removes (those that occur in the inputs).
Whitespace == {" ", "\t", "\n"}

\* The lower-case letter of each upper-case letter
lowerOf ==
  [c \in { UpperCase[k] : k \in DOMAIN UpperCase } |->
     LowerCase[CHOOSE k \in DOMAIN UpperCase : UpperCase[k] = c]]

lowerChar(c) == IF c \in DOMAIN lowerOf THEN lowerOf[c] ELSE c

\* str.lower()
lower(s) == [k \in 1..Len(s) |-> lowerChar(s[k])]

RECURSIVE lstrip(_)
lstrip(s) ==
  IF s # <<>> /\ Head(s) \in Whitespace THEN lstrip(Tail(s)) ELSE s

RECURSIVE rstrip(_)
rstrip(s) ==
  IF s # <<>> /\ s[Len(s)] \in Whitespace
    THEN rstrip(SubSeq(s, 1, Len(s) - 1))
    ELSE s

\* str.strip()
strip(s) == rstrip(lstrip(s))

\* str(n) for a non-negative int
RECURSIVE str(_)
str(n) ==
  LET d == <<"0","1","2","3","4","5","6","7","8","9">>[(n % 10) + 1]
  IN  IF n < 10 THEN <<d>> ELSE Append(str(n \div 10), d)

(* ------------------------------ catalog -------------------------------- *)

catalog ==
  <<
    [ title |-> "Veggie Omelette",
      ingredients |-> <<
          <<"e", "g", "g", "s">>,
          <<"o", "n", "i", "o", "n">>,
          <<"t", "o", "m", "a", "t", "o">>,
          <<"s", "p", "i", "n", "a", "c", "h">>,
          <<"o", "l", "i", "v", "e", " ", "o", "i", "l">>,
          <<"s", "a", "l", "t">>,
          <<"p", "e", "p", "p", "e", "r">> >>,
      steps |-> <<
          "Whisk eggs with salt and pepper",
          "Saute onion, tomato, spinach in olive oil",
          "Pour eggs and cook until set" >>,
      time |-> 10,
      difficulty |-> "easy",
      healthy |-> TRUE ],
    [ title |-> "Garlic Butter Pasta",
      ingredients |-> <<
          <<"p", "a", "s", "t", "a">>,
          <<"g", "a", "r", "l", "i", "c">>,
          <<"b", "u", "t", "t", "e", "r">>,
          <<"o", "l", "i", "v", "e", " ", "o", "i", "l">>,
          <<"s", "a", "l", "t">>,
          <<"p", "e", "p", "p", "e", "r">>,
          <<"p", "a", "r", "s", "l", "e", "y">> >>,
      steps |-> <<
          "Boil pasta until al dente",
          "Saute garlic in butter and olive oil",
          "Toss pasta with sauce and parsley" >>,
      time |-> 15,
      difficulty |-> "easy",
      healthy |-> FALSE ],
    [ title |-> "Chickpea Salad",
      ingredients |-> <<
          <<"c", "h", "i", "c", "k", "p", "e", "a", "s">>,
          <<"c", "u", "c", "u", "m", "b", "e", "r">>,
          <<"t", "o", "m", "a", "t", "o">>,
          <<"o", "n", "i", "o", "n">>,
          <<"l", "e", "m", "o", "n">>,
          <<"o", "l", "i", "v", "e", " ", "o", "i", "l">>,
          <<"s", "a", "l", "t">>,
          <<"p", "e", "p", "p", "e", "r">> >>,
      steps |-> <<
          "Chop vegetables",
          "Mix with chickpeas, lemon juice and olive oil",
          "Season and serve" >>,
      time |-> 8,
      difficulty |-> "easy",
      healthy |-> TRUE ],
    [ title |-> "One-Pan Chicken & Rice",
      ingredients |-> <<
          <<"c", "h", "i", "c", "k", "e", "n">>,
          <<"r", "i", "c", "e">>,
          <<"o", "n", "i", "o", "n">>,
          <<"g", "a", "r", "l", "i", "c">>,
          <<"p", "a", "p", "r", "i", "k", "a">>,
          <<"s", "a", "l", "t">>,
          <<"p", "e", "p", "p", "e", "r">>,
          <<"o", "l", "i", "v", "e", " ", "o", "i", "l">> >>,
      steps |-> <<
          "Brown chicken",
          "Saute aromatics",
          "Add rice and water, simmer until cooked" >>,
      time |-> 35,
      difficulty |-> "medium",
      healthy |-> TRUE ],
    [ title |-> "Peanut Stir-Fry",
      ingredients |-> <<
          <<"n", "o", "o", "d", "l", "e", "s">>,
          <<"s", "o", "y", " ", "s", "a", "u", "c", "e">>,
          <<"g", "a", "r", "l", "i", "c">>,
          <<"g", "i", "n", "g", "e", "r">>,
          <<"p", "e", "a", "n", "u", "t", " ", "b", "u", "t", "t", "e", "r">>,
          <<"m", "i", "x", "e", "d", " ", "v", "e", "g", "e", "t", "a", "b", "l", "e", "s">>,
          <<"o", "i", "l">> >>,
      steps |-> <<
          "Stir-fry vegetables with garlic and ginger",
          "Add cooked noodles, soy sauce and peanut butter",
          "Toss to coat" >>,
      time |-> 15,
      difficulty |-> "medium",
      healthy |-> FALSE ],
    [ title |-> "Baked Oats",
      ingredients |-> <<
          <<"o", "a", "t", "s">>,
          <<"b", "a", "n", "a", "n", "a">>,
          <<"m", "i", "l", "k">>,
          <<"h", "o", "n", "e", "y">>,
          <<"b", "a", "k", "i", "n", "g", " ", "p", "o", "w", "d", "e", "r">>,
          <<"c", "i", "n", "n", "a", "m", "o", "n">> >>,
      steps |-> <<
          "Blend ingredients",
          "Bake until set" >>,
      time |-> 20,
      difficulty |-> "easy",
      healthy |-> TRUE ]
  >>

(* ------------------------ simple_recipe_engine ------------------------- *)

\* pantry_set = {i.strip().lower() for i in pantry if i.strip()}
pantry_set_nostrip(pantry) ==
  { lower(pantry[k]) : k \in { j \in DOMAIN pantry : pantry[j] # <<>> } }

pantry_set(pantry) ==
  { lower(strip(pantry[k])) :
      k \in { j \in DOMAIN pantry : strip(pantry[j]) # <<>> } }

\* missing = [x for x in ing if x.lower() not in pantry_set]
missing(ing, pset) == SelectSeq(ing, LAMBDA x : lower(x) \notin pset)

\* if len(missing) <= len(ing) // 2
relevant_strict(miss, ing) == Len(miss) < Len(ing) \div 2

relevant_all(miss, ing) == Len(miss) <= Len(ing)

relevant(miss, ing) == Len(miss) <= Len(ing) \div 2

\* Recipe(title=..., ..., is_healthy=item["healthy"])
Recipe(item, miss) ==
  [ title                |-> item.title,
    ingredients          |-> item.ingredients,
    missing_ingredients  |-> miss,
    steps                |-> item.steps,
    cooking_time_minutes |-> item.time,
    difficulty           |-> item.difficulty,
    is_healthy           |-> item.healthy ]

\* for item in catalog: ... results.append(Recipe(...)), from entry k on
RECURSIVE matches(_, _)
matches(k, pset) ==
  IF k > Len(catalog) THEN <<>>
  ELSE LET item == catalog[k]
           ing  == item.ingredients
           miss == missing(ing, pset)
       IN  IF relevant(miss, ing)
             THEN <<Recipe(item, miss)>> \o matches(k + 1, pset)
             ELSE matches(k + 1, pset)

\* key=lambda r: (len(r.missing_ingredients), r.cooking_time_minutes)
sort_key_time(r) == <<r.cooking_time_minutes, r.cooking_time_minutes>>

sort_key(r) == <<Len(r.missing_ingredients), r.cooking_time_minutes>>

\* tuple comparison a < b
key_less(a, b) == a[1] < b[1] \/ (a[1] = b[1] /\ a[2] < b[2])

\* list.sort is stable: r goes behind every element whose key is not greater
RECURSIVE insert(_, _)
insert(sorted, r) ==
  IF sorted = <<>> THEN <<r>>
  ELSE IF key_less(sort_key(r), sort_key(Head(sorted)))
         THEN <<r>> \o sorted
         ELSE <<Head(sorted)>> \o insert(Tail(sorted), r)

RECURSIVE sort_from(_, _, _)
sort_from(results, k, acc) ==
  IF k > Len(results) THEN acc
  ELSE sort_from(results, k + 1, insert(acc, results[k]))

\* results.sort(key=...)
sort(results) == sort_from(results, 1, <<>>)

simple_recipe_engine(pantry) == sort(matches(1, pantry_set(pantry)))

(* ------------------------------ requests ------------------------------- *)

\* JSON values of a request body, and Optional[str]
None == [kind |-> "None"]

Str(s) == [kind |-> "str", val |-> s]

Num(n) == [kind |-> "int", val |-> n]

\* The words a client draws the ingredients array from: catalog ingredients
\* in mixed case and with surrounding whitespace, a duplicate of one of them,
\* a whitespace-only and an empty string, and a non-string element.
AllWords ==
  << Str(<<"g","a","r","l","i","c">>),
     Str(<<" ","S","a","l","t">>),
     Str(<<"P","E","P","P","E","R"," ">>),
     Str(<<"o","l","i","v","e"," ","o","i","l">>),
     Str(<<"n","o","o","d","l","e","s">>),
     Str(<<"\t","G","i","n","g","e","r","\n">>),
     Str(<<"o","i","l">>),
     Str(<<"o","n","i","o","n">>),
     Str(<<"s","a","l","t">>),
     Str(<<" "," ">>),
     Str(<<>>),
     Num(42),
     Str(<<"T","o","m","a","t","o">>) >>

Vocabulary ==
  SubSeq(AllWords, 1, IF MaxWords < Len(AllWords) THEN MaxWords ELSE Len(AllWords))

\* The elements of Vocabulary at the positions in mask, in order
RECURSIVE pick(_, _)
pick(mask, k) ==
  IF k > Len(Vocabulary) THEN <<>>
  ELSE IF k \in mask THEN <<Vocabulary[k]>> \o pick(mask, k + 1)
                     ELSE pick(mask, k + 1)

Difficulties == {None, Str(""), Str("easy"), Str("medium"), Str("hard"), Str("extreme")}

\* pydantic's str validation: strict (v2) rejects a non-str, lax (v1) coerces it
PydanticModes == {"strict", "lax"}

NoBody == [ingredients |-> <<>>, healthy_only |-> FALSE, difficulty |-> None]

VARIABLES
  pc,            \* position of the handler
  body,          \* the JSON request body
  payload,       \* the validated RecipeRequest
  all_results,   \* local all_results of get_recipes
  log_attempts,  \* entries into the try block of the logging step
  created,       \* the documents handed to create_document, one per call
  log_outcome,   \* how the logging step ended
  status,        \* HTTP status code of the response, 0 while none
  detail,        \* detail of an error response
  response       \* JSON array of the response

vars == <<pc, body, payload, all_results, log_attempts, created,
          log_outcome, status, detail, response>>

Init ==
  /\ pc = "idle"
  /\ body = NoBody
  /\ payload = NoBody
  /\ all_results = <<>>
  /\ log_attempts = 0
  /\ created = <<>>
  /\ log_outcome = "none"
  /\ status = 0
  /\ detail = ""
  /\ response = <<>>

\* A client posts a body to /api/recipes
Receive ==
  /\ pc = "idle"
  /\ \E mask \in SUBSET (1..Len(Vocabulary)), d \in Difficulties, h \in BOOLEAN :
       body' = [ingredients |-> pick(mask, 1), healthy_only |-> h, difficulty |-> d]
  /\ pc' = "parse"
  /\ UNCHANGED <<payload, all_results, log_attempts, created, log_outcome,
                 status, detail, response>>

\* ingredients: List[str] -- a str is kept, a number is turned into its text
coerce(v) == IF v.kind = "str" THEN v ELSE Str(str(v.val))

\* payload: RecipeRequest -- the body is validated before get_recipes runs
ParseBody ==
  /\ pc = "parse"
  /\ \E mode \in PydanticModes :
       IF mode = "strict"
          /\ \E k \in DOMAIN body.ingredients : body.ingredients[k].kind # "str"
         THEN /\ status' = 422
              /\ detail' = "validation error"
              /\ pc' = "done"
              /\ UNCHANGED payload
         ELSE /\ payload' = [ingredients  |-> [k \in DOMAIN body.ingredients |->
                                                 coerce(body.ingredients[k])],
                             healthy_only |-> body.healthy_only,
                             difficulty   |-> body.difficulty]
              /\ pc' = "match"
              /\ UNCHANGED <<status, detail>>
  /\ UNCHANGED <<body, all_results, log_attempts, created, log_outcome, response>>

(* ----------------------------- get_recipes ----------------------------- *)

\* pantry = payload.ingredients or [], as Python strings
pantry == [k \in DOMAIN payload.ingredients |-> payload.ingredients[k].val]

difficulty == payload.difficulty

healthy_only == payload.healthy_only

\* any(not isinstance(i, str) for i in pantry)
not_all_str == \E k \in DOMAIN payload.ingredients : payload.ingredients[k].kind # "str"

\* if difficulty:
truthy(d) == d.kind = "str" /\ d.val # ""

allowed == {"easy", "medium", "hard"}

\* [r for r in all_results if r.difficulty == difficulty]
by_difficulty(results, d) == SelectSeq(results, LAMBDA r : r.difficulty = d.val)

\* [r for r in all_results if r.is_healthy]
healthy(results) == SelectSeq(results, LAMBDA r : r.is_healthy)

\* [i.strip().lower() for i in pantry if i.strip()]
log_ingredients_raw(p) == SelectSeq(p, LAMBDA i : strip(i) # <<>>)

log_ingredients(p) ==
  LET kept == SelectSeq(p, LAMBDA i : strip(i) # <<>>)
  IN  [k \in 1..Len(kept) |-> lower(strip(kept[k]))]

\* request.headers.get("User-Agent")
UserAgents == {None, Str("curl/8.4.0")}

\* SearchLog(ingredients=..., ..., client=...)
SearchLog(client) ==
  [ ingredients   |-> log_ingredients(pantry),
    healthy_only  |-> healthy_only,
    difficulty    |-> difficulty,
    results_count |-> Len(all_results),
    client        |-> client ]

\* How the try block can end: SearchLog cannot be imported or built,
\* create_document raises, or the document is stored
LogOutcomes == {"schema_error", "write_error", "stored"}

\* lines 137-144: the isinstance check, then the matcher
Match ==
  /\ pc = "match"
  /\ IF not_all_str
       THEN /\ status' = 400
            /\ detail' = "ingredients must be a list of strings"
            /\ pc' = "done"
            /\ UNCHANGED all_results
       ELSE /\ all_results' = simple_recipe_engine(pantry)
            /\ pc' = "filter_difficulty"
            /\ UNCHANGED <<status, detail>>
  /\ UNCHANGED <<body, payload, log_attempts, created, log_outcome, response>>

\* lines 146-150
FilterDifficulty ==
  /\ pc = "filter_difficulty"
  /\ IF truthy(difficulty)
       THEN IF difficulty.val \notin allowed
              THEN /\ status' = 400
                   /\ detail' = "difficulty must be easy|medium|hard"
                   /\ pc' = "done"
                   /\ UNCHANGED all_results
              ELSE /\ all_results' = by_difficulty(all_results, difficulty)
                   /\ pc' = "filter_healthy"
                   /\ UNCHANGED <<status, detail>>
       ELSE /\ pc' = "filter_healthy"
            /\ UNCHANGED <<all_results, status, detail>>
  /\ UNCHANGED <<body, payload, log_attempts, created, log_outcome, response>>

\* lines 152-153
FilterHealthy ==
  /\ pc = "filter_healthy"
  /\ all_results' = IF healthy_only THEN healthy(all_results) ELSE all_results
  /\ pc' = "log"
  /\ UNCHANGED <<body, payload, log_attempts, created, log_outcome, status,
                 detail, response>>

\* lines 155-167: try: ... create_document("searchlog", log_doc)
\*                except Exception: pass
LogSearch_raise ==
  /\ pc = "log"
  /\ log_attempts' = log_attempts + 1
  /\ \E outcome \in LogOutcomes, client \in UserAgents :
       /\ log_outcome' = outcome
       /\ created' = IF outcome = "schema_error" THEN created
                     ELSE Append(created, SearchLog(client))
       /\ IF outcome = "stored"
            THEN pc' = "return" /\ UNCHANGED <<status, detail>>
            ELSE pc' = "done" /\ status' = 500 /\ detail' = "Internal Server Error"
  /\ UNCHANGED <<body, payload, all_results, response>>

LogSearch_retry ==
  /\ pc = "log"
  /\ log_attempts' = log_attempts + 1
  /\ \E outcome \in LogOutcomes, client \in UserAgents :
       /\ log_outcome' = outcome
       /\ created' = IF outcome = "schema_error" THEN created
                     ELSE Append(created, SearchLog(client))
       /\ pc' = IF outcome # "stored" /\ log_attempts = 0 THEN "log" ELSE "return"
  /\ UNCHANGED <<body, payload, all_results, status, detail, response>>

LogSearch ==
  /\ pc = "log"
  /\ log_attempts' = log_attempts + 1
  /\ \E outcome \in LogOutcomes, client \in UserAgents :
       /\ log_outcome' = outcome
       /\ created' = IF outcome = "schema_error" THEN created
                     ELSE Append(created, SearchLog(client))
  /\ pc' = "return"
  /\ UNCHANGED <<body, payload, all_results, status, detail, response>>

\* line 169: return all_results
Return ==
  /\ pc = "return"
  /\ status' = 200
  /\ response' = all_results
  /\ pc' = "done"
  /\ UNCHANGED <<body, payload, all_results, log_attempts, created, log_outcome,
                 detail>>

\* The response is sent; the handler's locals are gone with the request
Close ==
  /\ pc = "done"
  /\ pc' = "idle"
  /\ body' = NoBody
  /\ payload' = NoBody
  /\ all_results' = <<>>
  /\ log_attempts' = 0
  /\ created' = <<>>
  /\ log_outcome' = "none"
  /\ status' = 0
  /\ detail' = ""
  /\ response' = <<>>

Next ==
  \/ Receive
  \/ ParseBody
  \/ Match
  \/ FilterDifficulty
  \/ FilterHealthy
  \/ LogSearch
  \/ Return
  \/ Close

Spec == Init /\ [][Next]_vars

(* ------------------------------ properties ----------------------------- *)

\* The trimmed, lower-cased, non-empty strings of the pantry
NormalizedPantry == { lower(strip(pantry[k])) : k \in DOMAIN pantry } \ {<<>>}

\* The catalog entry a result was built from
EntryOf(r) == CHOOSE k \in DOMAIN catalog : catalog[k].title = r.title

\* The ingredients of catalog entry k that the pantry lacks, in catalog order
ExpectedMissing(k) ==
  LET have == NormalizedPantry
  IN  SelectSeq(catalog[k].ingredients, LAMBDA i : lower(i) \notin have)

\* s is a subsequence of t
RECURSIVE IsSubsequence(_, _)
IsSubsequence(s, t) ==
  IF s = <<>> THEN TRUE
  ELSE IF t = <<>> THEN FALSE
  ELSE IF Head(s) = Head(t) THEN IsSubsequence(Tail(s), Tail(t))
  ELSE IsSubsequence(s, Tail(t))

\* C1: every result of simple_recipe_engine carries as missing_ingredients
\* exactly the ingredients of its catalog entry, in catalog order and casing,
\* whose lower-cased form is not among the trimmed, lower-cased, non-empty
\* pantry strings; so missing_ingredients is a subsequence of the entry's
\* ingredients.
C1_MissingExact ==
  pc = "filter_difficulty" =>
    \A n \in DOMAIN all_results :
      LET r == all_results[n]
      IN  /\ \E k \in DOMAIN catalog : catalog[k].title = r.title
          /\ r.ingredients = catalog[EntryOf(r)].ingredients
          /\ r.missing_ingredients = ExpectedMissing(EntryOf(r))
          /\ IsSubsequence(r.missing_ingredients, r.ingredients)

\* A result with something missing, from a pantry with a blank, a duplicate
\* and strings to trim and lower-case
C1_Witness ==
  /\ pc = "filter_difficulty"
  /\ \E n \in DOMAIN all_results :
       /\ all_results[n].missing_ingredients # <<>>
       /\ Len(all_results[n].missing_ingredients) < Len(all_results[n].ingredients)
  /\ \E k \in DOMAIN pantry : strip(pantry[k]) = <<>>
  /\ \E j, k \in DOMAIN pantry :
       j # k /\ pantry[j] # pantry[k] /\ lower(strip(pantry[j])) = lower(strip(pantry[k]))
  /\ \E k \in DOMAIN pantry :
       /\ strip(pantry[k]) # pantry[k]
       /\ lower(strip(pantry[k])) # strip(pantry[k])
       /\ \E n \in DOMAIN all_results :
            \E i \in DOMAIN all_results[n].ingredients :
              /\ all_results[n].ingredients[i] = lower(strip(pantry[k]))
              /\ \A m \in DOMAIN all_results[n].missing_ingredients :
                   all_results[n].missing_ingredients[m] # lower(strip(pantry[k]))

\* How often catalog entry k occurs in results
Occurrences(results, k) ==
  Cardinality({ n \in DOMAIN results : results[n].title = catalog[k].title })

\* C2: right after matching, a catalog entry is in the output exactly once if
\* the number of its missing ingredients is at most half the number of its
\* ingredients, rounded down, and not at all otherwise; nothing else is in it.
C2_HalfCoverage ==
  pc = "filter_difficulty" =>
    /\ \A k \in DOMAIN catalog :
         Occurrences(all_results, k) =
           IF 2 * Len(ExpectedMissing(k)) <= Len(catalog[k].ingredients) THEN 1 ELSE 0
    /\ \A n \in DOMAIN all_results :
         \E k \in DOMAIN catalog : catalog[k].title = all_results[n].title

\* An entry exactly at the threshold is in, one just above it is out
C2_Witness ==
  /\ pc = "filter_difficulty"
  /\ \E k \in DOMAIN catalog :
       /\ Len(ExpectedMissing(k)) = Len(catalog[k].ingredients) \div 2
       /\ Occurrences(all_results, k) = 1
  /\ \E k \in DOMAIN catalog :
       /\ Len(ExpectedMissing(k)) = (Len(catalog[k].ingredients) \div 2) + 1
       /\ Len(catalog[k].ingredients) % 2 = 1
       /\ Occurrences(all_results, k) = 0

\* C3: the output of simple_recipe_engine ascends by (number of missing
\* ingredients, cooking time), and results equal on both stand in catalog order.
C3_Ranked ==
  pc = "filter_difficulty" =>
    \A i, j \in DOMAIN all_results :
      i < j =>
        LET a == all_results[i]
            b == all_results[j]
        IN  \/ Len(a.missing_ingredients) < Len(b.missing_ingredients)
            \/ /\ Len(a.missing_ingredients) = Len(b.missing_ingredients)
               /\ a.cooking_time_minutes < b.cooking_time_minutes
            \/ /\ Len(a.missing_ingredients) = Len(b.missing_ingredients)
               /\ a.cooking_time_minutes = b.cooking_time_minutes
               /\ EntryOf(a) < EntryOf(b)

\* Two results tie on both keys, and the ranking departs from catalog order
\* on the count of missing ingredients and on the cooking time
C3_Witness ==
  /\ pc = "filter_difficulty"
  /\ \E i, j \in DOMAIN all_results :
       /\ i < j
       /\ Len(all_results[i].missing_ingredients) = Len(all_results[j].missing_ingredients)
       /\ all_results[i].cooking_time_minutes = all_results[j].cooking_time_minutes
  /\ \E i, j \in DOMAIN all_results :
       /\ i < j
       /\ EntryOf(all_results[i]) > EntryOf(all_results[j])
       /\ Len(all_results[i].missing_ingredients) < Len(all_results[j].missing_ingredients)
       /\ all_results[i].cooking_time_minutes > all_results[j].cooking_time_minutes
  /\ \E i, j \in DOMAIN all_results :
       /\ i < j
       /\ EntryOf(all_results[i]) > EntryOf(all_results[j])
       /\ Len(all_results[i].missing_ingredients) = Len(all_results[j].missing_ingredients)

\* The body's ingredients are all strings
BodyAllStr == \A k \in DOMAIN body.ingredients : body.ingredients[k].kind = "str"

\* C4: the array of an accepted request is exactly the subsequence of the
\* ranked matcher output whose elements satisfy (difficulty is absent or
\* equals the result's difficulty) and (not healthy_only or the result is
\* healthy), in the ranked order.
C4_FilterExact ==
  (pc = "done" /\ status = 200) =>
    response =
      SelectSeq(simple_recipe_engine(pantry),
                LAMBDA r : /\ (difficulty = None \/ r.difficulty = difficulty.val)
                           /\ (~healthy_only \/ r.is_healthy))

\* C5: a difficulty that is present, the empty string included, and is none
\* of easy, medium, hard is answered 400 with a reason and without results.
C5_InvalidDifficultyRejected ==
  (/\ pc = "done"
   /\ BodyAllStr
   /\ body.difficulty.kind = "str"
   /\ body.difficulty.val \notin {"easy", "medium", "hard"}) =>
    (status = 400 /\ detail # "" /\ response = <<>>)

\* The array get_recipes returns for the validated request, whatever the
\* logging step does
ResponseOf ==
  LET ranked   == simple_recipe_engine(pantry)
      filtered == IF truthy(difficulty) THEN by_difficulty(ranked, difficulty)
                                        ELSE ranked
  IN  IF healthy_only THEN healthy(filtered) ELSE filtered

\* C6: once the logging step has run, the response is 200 with the filtered
\* matches of the request, whether the step stored the document or failed;
\* a logging failure never becomes an error response.
C6_LoggingNeverAffectsResponse ==
  (pc = "done" /\ log_outcome # "none") =>
    (status = 200 /\ detail = "" /\ response = ResponseOf)

\* A request with matches is answered after create_document raised
C6_Witness ==
  /\ pc = "done"
  /\ log_outcome = "write_error"
  /\ status = 200
  /\ response # <<>>

\* C7: a body whose ingredients hold a non-string element is answered 400
\* with the reason, and is neither matched nor logged.
C7_NonStringRejected ==
  (pc = "done" /\ ~BodyAllStr) =>
    /\ status = 400
    /\ detail = "ingredients must be a list of strings"
    /\ all_results = <<>>
    /\ log_attempts = 0
    /\ response = <<>>

\* C8: the logging step is entered exactly once in every handling that comes
\* to return results, after the filters and before the response; it is never
\* entered again, and create_document is called at most once.
C8_LogAttemptedOnce ==
  /\ log_attempts <= 1
  /\ Len(created) <= log_attempts
  /\ (log_attempts = 1) <=> (pc = "return" \/ (pc = "done" /\ status = 200))
  /\ (log_attempts = 1) <=> (log_outcome # "none")
  /\ pc \in {"parse", "match", "filter_difficulty", "filter_healthy", "log"} =>
       log_attempts = 0
  /\ pc = "return" => (status = 0 /\ response = <<>>)
  /\ (pc = "done" /\ status = 200) => response = all_results

\* A request is answered although the one attempt failed before
\* create_document was reached
C8_Witness ==
  /\ pc = "done"
  /\ status = 200
  /\ log_outcome = "schema_error"
  /\ log_attempts = 1
  /\ created = <<>>

\* The elements of a sequence
Range(s) == { s[k] : k \in DOMAIN s }

\* The pantry strings trimmed and lower-cased, blanks dropped, in order
RECURSIVE Normalized(_)
Normalized(p) ==
  IF p = <<>> THEN <<>>
  ELSE LET h == lower(strip(Head(p)))
       IN  IF h = <<>> THEN Normalized(Tail(p)) ELSE <<h>> \o Normalized(Tail(p))

\* C9 as stated: the ingredients of the logged record are the normalized
\* pantry used for matching, blanks and duplicates ignored, and its result
\* count is the length of the returned array.
C9_LogRecordDeduplicated ==
  (pc = "done" /\ created # <<>>) =>
    /\ Range(created[1].ingredients) = pantry_set(pantry)
    /\ Cardinality(Range(created[1].ingredients)) = Len(created[1].ingredients)
    /\ created[1].results_count = Len(response)

\* C9 amended: the ingredients of the logged record are the pantry strings
\* trimmed and lower-cased with blanks dropped, in request order and with
\* duplicates kept, so that as a set they are the normalized pantry used
\* for matching; its result count is the length of the returned array.
C9_LogRecord ==
  (pc = "done" /\ created # <<>>) =>
    /\ created[1].ingredients = Normalized(pantry)
    /\ Range(created[1].ingredients) = pantry_set(pantry)
    /\ created[1].results_count = Len(response)
    /\ created[1].healthy_only = healthy_only
    /\ created[1].difficulty = difficulty

\* A record with a repeated ingredient, from a pantry with a blank and
\* strings to trim and lower-case, logged after the filters dropped a match
C9_Witness ==
  /\ pc = "done"
  /\ created # <<>>
  /\ Cardinality(Range(created[1].ingredients)) < Len(created[1].ingredients)
  /\ Len(created[1].ingredients) < Len(pantry)
  /\ \E k \in DOMAIN pantry : lower(strip(pantry[k])) \notin Range(pantry)
  /\ created[1].results_count > 0
  /\ created[1].results_count < Len(simple_recipe_engine(pantry))

\* The body's ingredients are strings that are empty or all whitespace
BodyBlank ==
  \A k \in DOMAIN body.ingredients :
    body.ingredients[k].kind = "str" /\ strip(body.ingredients[k].val) = <<>>

\* C10: for a pantry of no strings or only empty and whitespace-only ones
\* the matcher returns the empty array, and with a valid difficulty the
\* request is answered 200 with the empty array.
C10_BlankPantryEmpty ==
  (pc # "idle" /\ BodyBlank) =>
    /\ all_results = <<>>
    /\ pc \notin {"parse", "match"} => NormalizedPantry = {}
    /\ (pc = "done" /\ (body.difficulty = None \/ body.difficulty.val \in allowed)) =>
         (status = 200 /\ response = <<>> /\ detail = "")

\* A pantry of one whitespace-only string, answered with the empty array
\* under a difficulty and the healthy filter
C10_Witness ==
  /\ pc = "done"
  /\ body.ingredients # <<>>
  /\ BodyBlank
  /\ body.difficulty = Str("easy")
  /\ body.healthy_only
  /\ status = 200
  /\ response = <<>>

====
